---- MODULE Spec2Model ----
(***************************************************************************)
(* Connection establishment and command execution of the SMTP client:     *)
(* the connect pipeline of connect.rs (ConnectingFailed outcome), the     *)
(* older pipeline of connection.rs (CmdFuture outcome), quit / shutdown,  *)
(* the capability query and the single-use type-erased command wrapper.   *)
(* Every transport operation is one step whose outcome the environment    *)
(* chooses; the combinators of a future chain run inside the step that    *)
(* resolves the future they are attached to.                              *)
(***************************************************************************)
EXTENDS Integers, Sequences, FiniteSets, TLC

\* ---------------------------------------------------------------- bounds
\* number of distinct capability names a server may advertise
NumCaps == 2
\* number of commands the caller runs on an established Connection
MaxUserOps == 2

CapNames == <<"STARTTLS", "AUTH", "SIZE", "PIPELINING", "8BITMIME">>
Caps == {CapNames[i] : i \in 1..NumCaps}

VARIABLES
    file,         \* which source file's pipeline runs: "connect.rs" or "connection.rs"
    entry,        \* the entry point called
    security,     \* the Security variant of the configuration
    client_id,    \* the ClientIdentity of the configuration
    pc,           \* the operation the chain is waiting on
    con,          \* the Connection (its Io) currently owned by the chain or the caller
    transport,    \* the socket: "unopened", "open", "shutdown", "dropped"
    trace,        \* the transport operations performed so far, in order
    result,       \* what the entry point's future resolved to
    pending_err,  \* the error captured by the closure that runs after quit()
    consults,     \* the pipeline's own reads of the capability ledger
    slot,         \* the Option slot of a BoxedCmd held by the caller
    execs,        \* how often the command wrapped in the BoxedCmd was executed
    nops,         \* commands the caller has run on the Connection
    calls,        \* invocations of _only_once_exec on the BoxedCmd
    query         \* the caller's last has_capability call and its answer

cfg == <<file, entry, security, client_id>>
user == <<slot, execs, nops, calls, query>>
vars == <<file, entry, security, client_id, pc, con, transport, trace, result, pending_err,
          consults, slot, execs, nops, calls, query>>

Securities == {"None", "DirectTls", "StartTls"}
Entries == {"connect", "insecure_no_ehlo", "direct_tls_no_ehlo",
            "insecure", "direct_tls", "starttls"}
NoEhloEntries == {"insecure_no_ehlo", "direct_tls_no_ehlo"}
Outcomes == {"ok", "neg", "io"}
ClientIds == {"localhost", "mail.example.org"}

\* the strategy an entry point runs: connect dispatches on the Security tag,
\* every other entry point is one fixed strategy
Strategy ==
    CASE entry = "connect" -> security
      [] entry \in {"insecure_no_ehlo", "insecure"} -> "None"
      [] entry \in {"direct_tls_no_ehlo", "direct_tls"} -> "DirectTls"
      [] entry = "starttls" -> "StartTls"

\* ------------------------------------------------------------ data model
NoEhlo == [present |-> FALSE, caps |-> {}, gen |-> 0]
NoCon == [socket |-> "none", gen |-> 0, ehlo_data |-> NoEhlo]

Event(ev, out, caps) ==
    [ev |-> ev, out |-> out, gen |-> con.gen, socket |-> con.socket, caps |-> caps,
     clid |-> "-"]

\* the exchange of the command Ehlo::from(clid)
Ehlo_from(clid, out, caps) == [Event("EHLO", out, caps) EXCEPT !.clid = clid]

ErrRes(e) == [tag |-> "Err", smtp |-> "-", err |-> e]
OkRes(s) == [tag |-> "Ok", smtp |-> s, err |-> "-"]

\* the three shapes a CmdFuture can resolve to
CmdResult(out) ==
    CASE out = "ok" -> OkRes("Ok")
      [] out = "neg" -> OkRes("Err")
      [] out = "io" -> ErrRes("IoError")

\* E: Into<ConnectingFailed>: an io error becomes Io, a ConnectingFailed is itself
Into(err) == IF err = "IoError" THEN "Io" ELSE err

\* .map_err(ConnectingFailed::Io)
map_err_Io(res) == IF res.tag = "Err" THEN ErrRes("Io") ELSE res

\* Io::has_capability: true only if ehlo data is present and holds the keyword
Io_has_capability(io, cap) == io.ehlo_data.present /\ cap \in io.ehlo_data.caps

\* has_capability taking "no ehlo data yet" for "supported"
has_capability_unknown_is_yes(self, cap) ==
    ~self.ehlo_data.present \/ Io_has_capability(self, cap)

\* self.io.has_capability(cap)
has_capability(self, cap) == Io_has_capability(self, cap)

ehlo_data(self) == self.ehlo_data

\* Ehlo::exec: on a positive response the advertised keywords become the ehlo data
Ehlo_exec(c, out, caps) ==
    IF out = "ok"
    THEN [c EXCEPT !.ehlo_data = [present |-> TRUE, caps |-> caps, gen |-> c.gen]]
    ELSE c

\* StartTls::exec: on a positive response the socket is replaced by the upgraded
\* one and the ehlo data of the plaintext socket is dropped
StartTls_exec(c, out) ==
    IF out = "ok"
    THEN [socket |-> "tls", gen |-> c.gen + 1, ehlo_data |-> NoEhlo]
    ELSE c

\* ------------------------------------------------------------ connect.rs
\* the helper without the cleanup branch: a negative response is returned at once
c_f2c_f_no_quit(res, new_logic_err) ==
    CASE res.tag = "Err" -> [kind |-> "err", err |-> Into(res.err)]
      [] res.tag = "Ok" /\ res.smtp = "Ok" -> [kind |-> "ok", err |-> "-"]
      [] res.tag = "Ok" /\ res.smtp = "Err" -> [kind |-> "err", err |-> new_logic_err]

\* the helper tagging a transport failure with the stage's logic error
c_f2c_f_io_as_logic(res, new_logic_err) ==
    CASE res.tag = "Err" -> [kind |-> "err", err |-> new_logic_err]
      [] res.tag = "Ok" /\ res.smtp = "Ok" -> [kind |-> "ok", err |-> "-"]
      [] res.tag = "Ok" /\ res.smtp = "Err" -> [kind |-> "quit", err |-> new_logic_err]

\* the helper not looking at the SmtpResult: Ok((con, _)) => ok(con)
c_f2c_f_ignoring_rejection(res, new_logic_err) ==
    CASE res.tag = "Err" -> [kind |-> "err", err |-> Into(res.err)]
      [] res.tag = "Ok" -> [kind |-> "ok", err |-> "-"]

cmd_future2connecting_future(res, new_logic_err) ==
    CASE res.tag = "Err" -> [kind |-> "err", err |-> Into(res.err)]
      [] res.tag = "Ok" /\ res.smtp = "Ok" -> [kind |-> "ok", err |-> "-"]
      [] res.tag = "Ok" /\ res.smtp = "Err" -> [kind |-> "quit", err |-> new_logic_err]

\* _connect_starttls built on _connect_insecure_no_ehlo: STARTTLS right after the greeting
after_no_ehlo_then_starttls ==
    IF entry \in NoEhloEntries THEN "ready"
    ELSE IF Strategy = "StartTls" THEN "starttls" ELSE "ehlo"

\* what the caller chained after the greeting: nothing, or send(Ehlo)
after_no_ehlo == IF entry \in NoEhloEntries THEN "ready" ELSE "ehlo"

\* connect returning con_fut as it is, the auth command never sent
after_establish_without_auth == "ready"

\* what connect chained after establishment: send(auth_cmd)
after_establish == IF entry = "connect" THEN "auth" ELSE "ready"

\* the first EHLO of every strategy followed by what connect chained: no upgrade
after_ehlo_skipping_upgrade == after_establish

\* what follows the first EHLO: _connect_starttls chains send(StartTls)
after_ehlo == IF Strategy = "StartTls" THEN "starttls" ELSE after_establish

\* an error of _connect_insecure run inside _connect_starttls passes the final
\* .then(|res| cmd_future2connecting_future(res, Setup)) of _connect_starttls
Outer(err, inner) ==
    IF inner /\ Strategy = "StartTls"
    THEN cmd_future2connecting_future(ErrRes(err), "Setup").err
    ELSE err

\* a dropped Connection closes its socket
Drop == IF transport = "open" THEN "dropped" ELSE transport

\* the chain continues with what cmd_future2connecting_future returned
Settle(fut, con2, next, inner) ==
    CASE fut.kind = "ok" ->
            /\ con' = con2
            /\ pc' = next
            /\ result' = IF next = "ready" THEN "Ok" ELSE result
            /\ UNCHANGED <<pending_err, transport>>
      [] fut.kind = "err" ->
            /\ con' = NoCon
            /\ pc' = "done"
            /\ result' = Outer(fut.err, inner)
            /\ transport' = Drop
            /\ UNCHANGED pending_err
      [] fut.kind = "quit" ->
            /\ con' = con2
            /\ pc' = "quit"
            /\ pending_err' = Outer(fut.err, inner)
            /\ UNCHANGED <<result, transport>>

\* Io::connect_insecure / Io::connect_secure followed by the rest of the chain
OpenStep(socket, inner) ==
    \E out \in {"ok", "io"} :
        /\ trace' = Append(trace, Event("open_" \o socket, out, {}))
        /\ IF out = "ok"
           THEN /\ con' = [socket |-> socket, gen |-> 1, ehlo_data |-> NoEhlo]
                /\ transport' = "open"
                /\ pc' = "greeting"
                /\ UNCHANGED <<result, pending_err>>
           ELSE /\ UNCHANGED <<con, transport, pending_err>>
                /\ pc' = "done"
                /\ result' = Outer(cmd_future2connecting_future(ErrRes("IoError"), "Setup").err, inner)
        /\ UNCHANGED <<cfg, consults, user>>

\* .and_then(Io::parse_response).then(|res| cmd_future2connecting_future(res, Setup))
GreetingStep(inner) ==
    \E out \in Outcomes :
        /\ trace' = Append(trace, Event("greeting", out, {}))
        /\ Settle(cmd_future2connecting_future(CmdResult(out), "Setup"), con, after_no_ehlo, inner)
        /\ UNCHANGED <<cfg, consults, user>>

_connect_insecure_no_ehlo ==
    /\ file = "connect.rs" /\ Strategy \in {"None", "StartTls"}
    /\ \/ pc = "open" /\ OpenStep("plain", TRUE)
       \/ pc = "greeting" /\ GreetingStep(TRUE)

_connect_direct_tls_no_ehlo ==
    /\ file = "connect.rs" /\ Strategy = "DirectTls"
    /\ \/ pc = "open" /\ OpenStep("tls", FALSE)
       \/ pc = "greeting" /\ GreetingStep(FALSE)

\* .and_then(|con| con.send(Ehlo::from(clid)).then(|res| c_f2c_f(res, Setup)))
EhloStep(inner) ==
    \E out \in Outcomes, caps \in SUBSET Caps :
        /\ out # "ok" => caps = {}
        /\ trace' = Append(trace, Ehlo_from(client_id, out, caps))
        /\ Settle(cmd_future2connecting_future(CmdResult(out), "Setup"),
                  Ehlo_exec(con, out, caps), after_ehlo, inner)
        /\ UNCHANGED <<cfg, consults, user>>

_connect_insecure ==
    /\ file = "connect.rs" /\ Strategy \in {"None", "StartTls"}
    /\ pc = "ehlo"
    /\ EhloStep(TRUE)

_connect_direct_tls ==
    /\ file = "connect.rs" /\ Strategy = "DirectTls"
    /\ pc = "ehlo"
    /\ EhloStep(FALSE)

\* ctx_and_then runs its closure only on Ok((ctx, Ok(item))); Ok((ctx, Err(e)))
\* and Err(e) pass through unchanged
ctx_and_then_runs(res) == res.tag = "Ok" /\ res.smtp = "Ok"

\* .and_then(|con| con.send(StartTls {..}).map_err(Io)) and what the rest of the
\* chain does with its result; `up` is the outcome of the in-place TLS handshake
StartTlsStep(next) ==
    \E out \in Outcomes, up \in {"ok", "io"} :
        LET exec == IF out = "ok" THEN up ELSE out
            res == map_err_Io(CmdResult(exec))
        IN  /\ out # "ok" => up = "ok"
            /\ trace' = IF out = "ok"
                        THEN trace \o <<Event("STARTTLS", out, {}), Event("tls_upgrade", up, {})>>
                        ELSE Append(trace, Event("STARTTLS", out, {}))
            /\ IF ctx_and_then_runs(res)
               THEN /\ con' = StartTls_exec(con, exec)
                    /\ pc' = next
                    /\ result' = IF next = "ready" THEN "Ok" ELSE result
                    /\ UNCHANGED <<pending_err, transport>>
               ELSE Settle(cmd_future2connecting_future(res, "Setup"), con, next, FALSE)
            /\ UNCHANGED <<cfg, consults, user>>

\* the second Ehlo built from some identity rather than from the moved clid
ReEhloStep_with_other_identity ==
    \E out \in Outcomes, caps \in SUBSET Caps, id \in ClientIds :
        /\ out # "ok" => caps = {}
        /\ trace' = Append(trace, Ehlo_from(id, out, caps))
        /\ Settle(cmd_future2connecting_future(map_err_Io(CmdResult(out)), "Setup"),
                  Ehlo_exec(con, out, caps), after_establish, FALSE)
        /\ UNCHANGED <<cfg, consults, user>>

\* .ctx_and_then(|con, _| con.send(Ehlo::from(clid)).map_err(Io))
\* .then(|res| cmd_future2connecting_future(res, Setup))
ReEhloStep ==
    \E out \in Outcomes, caps \in SUBSET Caps :
        /\ out # "ok" => caps = {}
        /\ trace' = Append(trace, Ehlo_from(client_id, out, caps))
        /\ Settle(cmd_future2connecting_future(map_err_Io(CmdResult(out)), "Setup"),
                  Ehlo_exec(con, out, caps), after_establish, FALSE)
        /\ UNCHANGED <<cfg, consults, user>>

\* _connect_starttls with the capability check of connection.rs: without
\* STARTTLS in the ledger it fails with an io error and sends nothing
_connect_starttls_checking_ledger ==
    /\ file = "connect.rs" /\ Strategy = "StartTls"
    /\ \/ /\ pc = "starttls"
          /\ IF has_capability(con, "STARTTLS")
             THEN StartTlsStep("ehlo2")
             ELSE /\ pc' = "done"
                  /\ con' = NoCon
                  /\ transport' = Drop
                  /\ result' = "Io"
                  /\ UNCHANGED <<cfg, trace, pending_err, consults, user>>
       \/ pc = "ehlo2" /\ ReEhloStep

\* _connect_starttls without the .ctx_and_then that sends Ehlo again
_connect_starttls_no_reehlo ==
    /\ file = "connect.rs" /\ Strategy = "StartTls"
    /\ pc = "starttls" /\ StartTlsStep(after_establish)

_connect_starttls ==
    /\ file = "connect.rs" /\ Strategy = "StartTls"
    /\ \/ pc = "starttls" /\ StartTlsStep("ehlo2")
       \/ pc = "ehlo2" /\ ReEhloStep

\* connect passing ConnectingFailed::Setup for the auth command
connect_tagging_setup ==
    /\ file = "connect.rs" /\ entry = "connect"
    /\ pc = "auth"
    /\ \E out \in Outcomes :
        /\ trace' = Append(trace, Event("AUTH", out, {}))
        /\ Settle(cmd_future2connecting_future(CmdResult(out), "Setup"), con, "ready", FALSE)
    /\ UNCHANGED <<cfg, consults, user>>

\* con_fut.and_then(|con| con.send(auth_cmd).then(|res| c_f2c_f(res, Auth)))
connect ==
    /\ file = "connect.rs" /\ entry = "connect"
    /\ pc = "auth"
    /\ \E out \in Outcomes :
        /\ trace' = Append(trace, Event("AUTH", out, {}))
        /\ Settle(cmd_future2connecting_future(CmdResult(out), "Auth"), con, "ready", FALSE)
    /\ UNCHANGED <<cfg, consults, user>>

\* ---------------------------------------------------------- connection.rs
\* a CmdFuture of the connection.rs pipeline resolves for its caller, or the
\* next ctx_and_then closure runs
CtxSettle(res, con2, next) ==
    IF ctx_and_then_runs(res)
    THEN /\ con' = con2
         /\ pc' = next
         /\ result' = IF next = "ready" THEN "Ok" ELSE result
         /\ transport' = transport
    ELSE IF res.tag = "Ok"
    THEN /\ con' = con2
         /\ pc' = "ready"
         /\ result' = "Neg"
         /\ transport' = transport
    ELSE /\ con' = NoCon
         /\ pc' = "done"
         /\ result' = res.err
         /\ transport' = Drop

\* Io::connect_insecure / Io::connect_secure, then .and_then(Io::parse_response)
COpenStep(socket) ==
    \E out \in {"ok", "io"} :
        /\ trace' = Append(trace, Event("open_" \o socket, out, {}))
        /\ IF out = "ok"
           THEN /\ con' = [socket |-> socket, gen |-> 1, ehlo_data |-> NoEhlo]
                /\ transport' = "open"
                /\ pc' = "greeting"
                /\ UNCHANGED result
           ELSE /\ UNCHANGED <<con, transport>>
                /\ pc' = "done"
                /\ result' = "IoError"
        /\ UNCHANGED <<cfg, pending_err, consults, user>>

\* .and_then(Io::parse_response).map(|(io, response)| (Connection::from(io), response))
\* and the .ctx_and_then of connect_insecure / connect_direct_tls when it is chained
CGreetingStep ==
    \E out \in Outcomes :
        /\ trace' = Append(trace, Event("greeting", out, {}))
        /\ CtxSettle(CmdResult(out), con, IF entry \in NoEhloEntries THEN "ready" ELSE "ehlo")
        /\ UNCHANGED <<cfg, pending_err, consults, user>>

connect_insecure_no_ehlo ==
    /\ file = "connection.rs" /\ Strategy \in {"None", "StartTls"}
    /\ \/ pc = "open" /\ COpenStep("plain")
       \/ pc = "greeting" /\ CGreetingStep

connect_direct_tls_no_ehlo ==
    /\ file = "connection.rs" /\ Strategy = "DirectTls"
    /\ \/ pc = "open" /\ COpenStep("tls")
       \/ pc = "greeting" /\ CGreetingStep

\* the first closure without its check: STARTTLS is sent whatever was advertised
starttls_supported_unchecked(c) == TRUE

\* the first closure of connect_starttls, run with the Connection the first EHLO
\* returned: it reads the ledger and refuses without sending anything
starttls_supported(c) == has_capability(c, "STARTTLS")

\* .ctx_and_then(move |con, _| con.send(Ehlo::from(clid))) and, in connect_starttls,
\* the closure chained on its result
CEhloStep ==
    \E out \in Outcomes, caps \in SUBSET Caps :
        LET con2 == Ehlo_exec(con, out, caps)
            res == CmdResult(out)
        IN  /\ out # "ok" => caps = {}
            /\ trace' = Append(trace, Ehlo_from(client_id, out, caps))
            /\ IF Strategy = "StartTls" /\ ctx_and_then_runs(res)
               THEN /\ consults' = Append(consults, [gen |-> con2.gen, ledger |-> con2.ehlo_data])
                    /\ IF starttls_supported(con2)
                       THEN CtxSettle(res, con2, "starttls")
                       ELSE CtxSettle(ErrRes("IoError"), con2, "starttls")
               ELSE /\ CtxSettle(res, con2, "ready")
                    /\ UNCHANGED consults
            /\ UNCHANGED <<cfg, pending_err, user>>

connect_insecure ==
    /\ file = "connection.rs" /\ Strategy \in {"None", "StartTls"}
    /\ pc = "ehlo"
    /\ CEhloStep

connect_direct_tls ==
    /\ file = "connection.rs" /\ Strategy = "DirectTls"
    /\ pc = "ehlo"
    /\ CEhloStep

\* connect_starttls with the STARTTLS capability check made in the second closure,
\* on the Connection the upgrade returned
connect_starttls_checking_after_upgrade ==
    /\ file = "connection.rs" /\ Strategy = "StartTls"
    /\ \/ /\ pc = "starttls"
          /\ \E out \in Outcomes, up \in {"ok", "io"} :
                LET exec == IF out = "ok" THEN up ELSE out
                IN  /\ out # "ok" => up = "ok"
                    /\ trace' = IF out = "ok"
                                THEN trace \o <<Event("STARTTLS", out, {}),
                                                Event("tls_upgrade", up, {})>>
                                ELSE Append(trace, Event("STARTTLS", out, {}))
                    /\ CtxSettle(CmdResult(exec), StartTls_exec(con, exec), "ehlo2")
                    /\ consults' = IF exec = "ok"
                                   THEN Append(consults, [gen |-> con.gen + 1, ledger |-> NoEhlo])
                                   ELSE consults
       \/ /\ pc = "ehlo2"
          /\ \E out \in Outcomes, caps \in SUBSET Caps :
                /\ out # "ok" => caps = {}
                /\ trace' = Append(trace, Ehlo_from(client_id, out, caps))
                /\ CtxSettle(CmdResult(out), Ehlo_exec(con, out, caps), "ready")
          /\ UNCHANGED consults
    /\ UNCHANGED <<cfg, pending_err, user>>

\* con.send(StartTls {..}) of the first closure, then
\* .ctx_and_then(|con, _| con.send(Ehlo::from(clid)))
connect_starttls ==
    /\ file = "connection.rs" /\ Strategy = "StartTls"
    /\ \/ /\ pc = "starttls"
          /\ \E out \in Outcomes, up \in {"ok", "io"} :
                LET exec == IF out = "ok" THEN up ELSE out
                IN  /\ out # "ok" => up = "ok"
                    /\ trace' = IF out = "ok"
                                THEN trace \o <<Event("STARTTLS", out, {}),
                                                Event("tls_upgrade", up, {})>>
                                ELSE Append(trace, Event("STARTTLS", out, {}))
                    /\ CtxSettle(CmdResult(exec), StartTls_exec(con, exec), "ehlo2")
       \/ /\ pc = "ehlo2"
          /\ \E out \in Outcomes, caps \in SUBSET Caps :
                /\ out # "ok" => caps = {}
                /\ trace' = Append(trace, Ehlo_from(client_id, out, caps))
                /\ CtxSettle(CmdResult(out), Ehlo_exec(con, out, caps), "ready")
    /\ UNCHANGED <<cfg, pending_err, consults, user>>

\* the closure chained on quit() by cmd_future2connecting_future runs whatever
\* quit resolved to; a caller's own quit() / shutdown() has no such closure
\* con.quit() chained with ? semantics: a transport failure of the cleanup
\* replaces the captured error
QuitResolved_propagating_failure ==
    IF pending_err = "none" THEN result
    ELSE IF trace'[Len(trace')].out = "io" THEN "Io" ELSE pending_err

QuitResolved == IF pending_err # "none" THEN pending_err ELSE result

\* quit that accepts a positive reply only: after a negative one it keeps
\* waiting for a reply that never comes
quit_waiting_for_positive_reply ==
    /\ pc \in {"quit", "ready"}
    /\ \E out \in Outcomes :
        /\ trace' = Append(trace, Event("QUIT", out, {}))
        /\ CASE out = "io" ->
                    /\ pc' = "done"
                    /\ con' = NoCon
                    /\ transport' = Drop
                    /\ result' = QuitResolved
              [] out = "neg" ->
                    /\ pc' = "waiting"
                    /\ UNCHANGED <<con, transport, result>>
              [] out = "ok" ->
                    /\ pc' = "shutdown"
                    /\ UNCHANGED <<con, transport, result>>
    /\ UNCHANGED <<cfg, pending_err, consults, user>>

\* self.send(Quit).and_then(|(con, _res)| con.shutdown()): the first half.
\* Called by the pipeline's cleanup (pc = "quit") or by the caller (pc = "ready").
quit ==
    /\ pc \in {"quit", "ready"}
    /\ \E out \in Outcomes :
        /\ trace' = Append(trace, Event("QUIT", out, {}))
        /\ IF out = "io"
           THEN /\ pc' = "done"
                /\ con' = NoCon
                /\ transport' = Drop
                /\ result' = QuitResolved
           ELSE /\ pc' = "shutdown"
                /\ UNCHANGED <<con, transport, result>>
    /\ UNCHANGED <<cfg, pending_err, consults, user>>

\* shutdown borrowing the Connection: the caller still holds it afterwards
shutdown_by_reference ==
    /\ pc \in {"shutdown", "ready"}
    /\ \E out \in {"ok", "io"} :
        /\ trace' = Append(trace, Event("shutdown", out, {}))
        /\ transport' = IF out = "ok" THEN "shutdown" ELSE "dropped"
    /\ pc' = IF pc = "ready" THEN "ready" ELSE "done"
    /\ con' = IF pc = "ready" THEN con ELSE NoCon
    /\ result' = QuitResolved
    /\ UNCHANGED <<cfg, pending_err, consults, user>>

\* into_inner, split, tokio shutdown(socket): as the second half of quit()
\* (pc = "shutdown") or called by the caller (pc = "ready")
shutdown ==
    /\ pc \in {"shutdown", "ready"}
    /\ \E out \in {"ok", "io"} :
        /\ trace' = Append(trace, Event("shutdown", out, {}))
        /\ transport' = IF out = "ok" THEN "shutdown" ELSE "dropped"
    /\ pc' = "done"
    /\ con' = NoCon
    /\ result' = QuitResolved
    /\ UNCHANGED <<cfg, pending_err, consults, user>>

\* what the caller gets back from a command run on an established Connection
UserCmd(name) ==
    \E out \in Outcomes :
        /\ trace' = Append(trace, Event(name, out, {}))
        /\ IF out = "io"
           THEN pc' = "done" /\ con' = NoCon /\ transport' = Drop
           ELSE UNCHANGED <<pc, con, transport>>

\* cmd.exec(self) for a command of the caller
send ==
    /\ pc = "ready" /\ nops < MaxUserOps
    /\ UserCmd("CMD")
    /\ nops' = nops + 1
    /\ UNCHANGED <<cfg, result, pending_err, consults, slot, execs, calls, query>>

\* reading the slot without clearing it
take_leaving_content(s) == [me |-> s, left |-> s]

\* Option::take: hands out the content and leaves None
take(s) == [me |-> s, left |-> "None"]

\* self.take().expect(..) then me.exec(con)
_only_once_exec ==
    /\ pc = "ready" /\ nops < MaxUserOps
    /\ slot' = take(slot).left
    /\ IF take(slot).me = "Some"
       THEN /\ execs' = execs + 1
            /\ UserCmd("BOXED")
       ELSE /\ pc' = "panicked"
            /\ con' = NoCon
            /\ transport' = Drop
            /\ UNCHANGED <<execs, trace>>
    /\ nops' = nops + 1
    /\ calls' = calls + 1
    /\ UNCHANGED <<cfg, result, pending_err, consults, query>>

\* the caller asks has_capability / ehlo_data on the Connection it holds
call_has_capability ==
    /\ pc = "ready"
    /\ \E cap \in Caps :
        query' = [asked |-> TRUE, cap |-> cap, answer |-> has_capability(con, cap),
                  ledger |-> ehlo_data(con)]
    /\ UNCHANGED <<cfg, pc, con, transport, trace, result, pending_err, consults,
                   slot, execs, nops, calls>>

\* ------------------------------------------------------------------ spec
Files == {"connect.rs", "connection.rs"}

Init ==
    /\ file \in Files
    /\ entry \in Entries
    /\ security \in Securities
    /\ security = Strategy
    /\ client_id \in ClientIds
    /\ pc = "open"
    /\ con = NoCon
    /\ transport = "unopened"
    /\ trace = <<>>
    /\ result = "pending"
    /\ pending_err = "none"
    /\ consults = <<>>
    /\ slot = "Some"
    /\ execs = 0
    /\ nops = 0
    /\ calls = 0
    /\ query = [asked |-> FALSE, cap |-> "", answer |-> FALSE, ledger |-> NoEhlo]

Next ==
    \/ _connect_insecure_no_ehlo
    \/ _connect_direct_tls_no_ehlo
    \/ _connect_insecure
    \/ _connect_direct_tls
    \/ _connect_starttls
    \/ connect
    \/ connect_insecure_no_ehlo
    \/ connect_direct_tls_no_ehlo
    \/ connect_insecure
    \/ connect_direct_tls
    \/ connect_starttls
    \/ quit
    \/ shutdown
    \/ send
    \/ _only_once_exec
    \/ call_has_capability

Spec == Init /\ [][Next]_vars

\* the operation the future chain of an entry point is waiting on: an
\* establishment step, the auth command, or the cleanup after a rejection
PendingStep ==
    \/ _connect_insecure_no_ehlo
    \/ _connect_direct_tls_no_ehlo
    \/ _connect_insecure
    \/ _connect_direct_tls
    \/ _connect_starttls
    \/ connect
    \/ connect_insecure_no_ehlo
    \/ connect_direct_tls_no_ehlo
    \/ connect_insecure
    \/ connect_direct_tls
    \/ connect_starttls
    \/ pc \in {"quit", "shutdown"} /\ (quit \/ shutdown)

\* every transport operation the chain waits on completes, with success or
\* failure; the caller is under no obligation to do anything with a Connection
FairSpec == Init /\ [][Next]_vars /\ WF_vars(PendingStep)

\* ------------------------------------------------------- reading the trace
StageEvents == {"open_plain", "open_tls", "greeting", "EHLO", "STARTTLS",
                "tls_upgrade", "AUTH"}
Idx(name) == {i \in DOMAIN trace : trace[i].ev = name}
Has(name) == Idx(name) # {}
Count(name) == Cardinality(Idx(name))

\* the establishment steps that did not succeed
Failures == {i \in DOMAIN trace : trace[i].ev \in StageEvents /\ trace[i].out # "ok"}

\* a negative response to the greeting, an EHLO or STARTTLS
SetupRejections ==
    {i \in Failures : trace[i].out = "neg" /\ trace[i].ev \in {"greeting", "EHLO", "STARTTLS"}}

\* a negative response to the auth command
AuthRejections == {i \in Failures : trace[i].out = "neg" /\ trace[i].ev = "AUTH"}

\* ------------------------------------------------------------------ claims

\* C1 (as stated): whenever connect of connect.rs has returned Auth, QUIT was sent
\* and the shutdown of the transport was run before the error was surfaced, and
\* the transport is not open.
C1_AuthFailureRunsQuitAndShutdown ==
    (file = "connect.rs" /\ result = "Auth") =>
        /\ Count("QUIT") = 1
        /\ Count("shutdown") = 1
        /\ transport # "open"

\* C2 (as stated): whenever quit() has run to its end, the shutdown step was
\* performed, whatever the QUIT exchange resolved to.
C2_QuitAlwaysShutsDown ==
    (pc = "done" /\ Has("QUIT")) => Has("shutdown")

\* C3 (as stated): when connect of connect.rs has returned Setup, no QUIT was sent
\* and no shutdown was run; the cleanup is run only after a negative auth response.
C3_SetupAbortsWithoutCleanup ==
    file = "connect.rs" =>
        /\ result = "Setup" => ~Has("QUIT") /\ ~Has("shutdown")
        /\ pc = "quit" => AuthRejections # {}

\* C3 (amended): a negative response to the greeting, an EHLO or STARTTLS makes
\* connect of connect.rs return Setup and nothing else, and on that path the same
\* cleanup as after a negative auth response is run before the error is surfaced:
\* QUIT is sent exactly once, right after the rejection, and the shutdown is run
\* exactly when the QUIT exchange did not fail with a transport error.
C3_SetupIsReturnedAfterCleanup ==
    file = "connect.rs" =>
        /\ \A i \in SetupRejections :
            /\ result \in {"pending", "Setup"}
            /\ pc = "done" => result = "Setup"
            /\ result = "pending" => pc \in {"quit", "shutdown"}
            /\ result = "Setup" =>
                /\ Idx("QUIT") = {i + 1}
                /\ Has("shutdown") <=> trace[i + 1].out # "io"
                /\ transport # "open"
        /\ result = "Setup" => SetupRejections # {}

C3_Witness ==
    /\ file = "connect.rs" /\ entry = "connect"
    /\ result = "Setup"
    /\ \E i \in SetupRejections : trace[i].ev = "STARTTLS"
    /\ Has("QUIT") /\ Has("shutdown")

\* the completed EHLO exchanges on transport generation g, and what the last
\* of them advertised
EhloOk(g) == {i \in Idx("EHLO") : trace[i].out = "ok" /\ trace[i].gen = g}
Advertised(g) ==
    IF EhloOk(g) = {} THEN {}
    ELSE trace[CHOOSE i \in EhloOk(g) : \A j \in EhloOk(g) : j <= i].caps

\* C4: on the StartTls path (either file), a Connection returned by a successful
\* run sits on the upgraded transport and its ledger is exactly what the
\* post-upgrade EHLO advertised: has_capability answers from that set alone.
C4_StartTlsLedgerIsPostUpgrade ==
    (Strategy = "StartTls" /\ pc = "ready" /\ result = "Ok") =>
        /\ con.gen = 2
        /\ EhloOk(2) # {}
        /\ ehlo_data(con).present
        /\ ehlo_data(con).caps = Advertised(2)
        /\ \A cap \in Caps : has_capability(con, cap) <=> cap \in Advertised(2)

C4_Witness ==
    /\ Strategy = "StartTls" /\ pc = "ready" /\ result = "Ok"
    /\ \E cap \in Advertised(1) \ Advertised(2) : ~has_capability(con, cap)

\* C5: a completed run of connect (connect.rs), for every Security variant, ended
\* in exactly one of: a Connection whose ledger is the one a completed EHLO
\* populated and no establishment step failed; Io and the step that failed had a
\* transport failure; Setup and the greeting, an EHLO or STARTTLS was rejected;
\* Auth and the auth command was rejected. (The step that failed is the
\* establishment or auth step that ended the run; the cleanup is not a stage.)
C5_OutcomeIsStageTagged ==
    (file = "connect.rs" /\ entry = "connect" /\ result # "pending") =>
        /\ result \in {"Ok", "Io", "Setup", "Auth"}
        /\ Cardinality(Failures) <= 1
        /\ result = "Ok" <=> Failures = {}
        /\ result = "Io" <=> (\E i \in Failures : trace[i].out = "io")
        /\ result = "Setup" <=> SetupRejections # {}
        /\ result = "Auth" <=> AuthRejections # {}
        /\ (result = "Ok" /\ pc = "ready") =>
            /\ ehlo_data(con).present
            /\ EhloOk(con.gen) # {}
            /\ ehlo_data(con).caps = Advertised(con.gen)

C5_Witness ==
    /\ file = "connect.rs" /\ entry = "connect" /\ security = "StartTls"
    /\ result = "Auth"
    /\ AuthRejections # {}

\* C6: in connect.rs a transport failure of any establishment step or of the
\* auth command is the last thing done on the transport: the run has ended with
\* Io in that very step, every earlier step had succeeded, and the failed step
\* was not tried before on that transport generation.
C6_IoFailureAbortsAtOnce ==
    file = "connect.rs" =>
        \A i \in Failures : trace[i].out = "io" =>
            /\ i = Len(trace)
            /\ result = "Io"
            /\ pc = "done"
            /\ \A j \in 1..(i - 1) :
                /\ trace[j].out = "ok"
                /\ ~(trace[j].ev = trace[i].ev /\ trace[j].gen = trace[i].gen)

C6_Witness ==
    /\ file = "connect.rs" /\ entry = "connect" /\ security = "StartTls"
    /\ result = "Io"
    /\ \E i \in Idx("EHLO") : trace[i].out = "io" /\ trace[i].gen = 2

\* the establishment steps of the trace, in order
IsStage(e) == e.ev \in StageEvents
Stages == SelectSeq(trace, IsStage)

\* the order of the steps of each strategy
Order ==
    CASE Strategy = "None" -> <<"open_plain", "greeting", "EHLO", "AUTH">>
      [] Strategy = "DirectTls" -> <<"open_tls", "greeting", "EHLO", "AUTH">>
      [] Strategy = "StartTls" ->
            <<"open_plain", "greeting", "EHLO", "STARTTLS", "tls_upgrade", "EHLO", "AUTH">>

\* C7: the establishment steps happen in the order of the strategy, each one
\* only after the one before it has completed; with DirectTls every SMTP
\* exchange is on the TLS socket; with StartTls greeting, first EHLO and STARTTLS
\* are on the plaintext socket and the second EHLO on the upgraded one; with None
\* everything is on the plaintext socket.
C7_EstablishmentOrder ==
    /\ Len(Stages) <= Len(Order)
    /\ \A i \in 1..Len(Stages) :
        /\ Stages[i].ev = Order[i]
        /\ i < Len(Stages) => Stages[i].out = "ok"
        /\ Stages[i].ev \in {"greeting", "EHLO", "STARTTLS", "AUTH"} =>
            CASE Strategy = "None" -> Stages[i].socket = "plain" /\ Stages[i].gen = 1
              [] Strategy = "DirectTls" -> Stages[i].socket = "tls" /\ Stages[i].gen = 1
              [] Strategy = "StartTls" ->
                    IF i <= 4
                    THEN Stages[i].socket = "plain" /\ Stages[i].gen = 1
                    ELSE Stages[i].socket = "tls" /\ Stages[i].gen = 2

C7_Witness ==
    /\ Strategy = "StartTls" /\ pc = "ready" /\ result = "Ok"
    /\ Len(Stages) >= 6
    /\ Stages[6].ev = "EHLO" /\ Stages[6].socket = "tls"

\* C8: the command wrapped in a BoxedCmd is executed by the first
\* _only_once_exec, which leaves the slot empty, and never again: the second
\* invocation panics (no result value is produced) without running the command,
\* so its exchange appears on the transport at most once.
C8_BoxedCmdRunsAtMostOnce ==
    /\ execs = (IF calls = 0 THEN 0 ELSE 1)
    /\ Count("BOXED") = execs
    /\ slot = "None" <=> calls >= 1
    /\ pc = "panicked" <=> calls >= 2
    /\ calls <= 2

C8_Witness ==
    /\ pc = "panicked"
    /\ calls = 2 /\ execs = 1 /\ Count("BOXED") = 1

\* what C9 says of every state
C9_Answers ==
    /\ \A cap \in Caps :
        has_capability(con, cap) =>
            /\ ehlo_data(con).present
            /\ cap \in ehlo_data(con).caps
            /\ cap \in Advertised(con.gen)
    /\ (con.socket # "none" /\ EhloOk(1) = {} /\ EhloOk(2) = {}) =>
        /\ \A cap \in Caps : ~has_capability(con, cap)
        /\ query.asked => ~query.answer
    /\ query.asked =>
        (query.answer <=> (query.ledger.present /\ query.cap \in query.ledger.caps))

\* C9: has_capability(name) is true only if a ledger is present and holds name (a
\* name the last EHLO on this transport advertised); while no EHLO has completed
\* it is false for every name; and a call changes nothing but the caller's
\* answer: nothing is sent, no EHLO runs, the Connection is as it was.
C9_HasCapabilityOnlyReadsLedger ==
    /\ []C9_Answers
    /\ [][query' # query =>
            UNCHANGED <<cfg, pc, con, transport, trace, result,
                        pending_err, consults, slot, execs, nops, calls>>]_vars

C9_Witness ==
    /\ pc = "ready" /\ con.socket # "none"
    /\ EhloOk(1) = {} /\ EhloOk(2) = {}
    /\ query.asked /\ ~query.answer /\ query.cap = "STARTTLS"

\* C10: a ledger that is present was populated on the transport generation the
\* Connection is on now and holds what the last EHLO completed on that generation
\* advertised; between the completed upgrade and the completion of the
\* post-upgrade EHLO there is no ledger; and the pipeline itself reads the
\* ledger only before the upgrade, where it is the first EHLO's.
C10_LedgerIsOfActiveGeneration ==
    /\ ehlo_data(con).present =>
        /\ ehlo_data(con).gen = con.gen
        /\ EhloOk(con.gen) # {}
        /\ ehlo_data(con).caps = Advertised(con.gen)
    /\ pc = "ehlo2" => con.gen = 2 /\ ~ehlo_data(con).present
    /\ \A k \in DOMAIN consults :
        /\ consults[k].gen = 1
        /\ consults[k].ledger.present
        /\ consults[k].ledger.gen = 1
        /\ consults[k].ledger.caps = Advertised(1)
    /\ file = "connect.rs" => consults = <<>>

C10_Witness ==
    /\ pc = "ehlo2"
    /\ Advertised(1) # {}
    /\ ~ehlo_data(con).present

\* C11: in both pipelines no establishment command follows a negative response:
\* the rejected step is the last establishment step of the run, connect.rs is
\* from then on in its cleanup or has returned its error, and connection.rs has
\* returned the rejection to its caller in that very step.
C11_NothingIsSentAfterRejection ==
    \A i \in Failures : trace[i].out = "neg" =>
        /\ \A j \in DOMAIN trace : j > i => trace[j].ev \notin StageEvents
        /\ file = "connect.rs" =>
            /\ pc \in {"quit", "shutdown", "done"}
            /\ result \in {"pending", "Setup", "Auth"}
        /\ file = "connection.rs" => result = "Neg"

C11_Witness ==
    /\ file = "connection.rs" /\ Strategy = "StartTls"
    /\ \E i \in Failures : trace[i].out = "neg" /\ trace[i].ev = "EHLO" /\ trace[i].gen = 1
    /\ result = "Neg" /\ nops = MaxUserOps

\* the establishment steps before step i of the trace
StagesBefore(i) == {j \in DOMAIN trace : j < i /\ trace[j].ev \in StageEvents}

\* C12: in a run of connect (connect.rs) no command is sent twice on one
\* transport generation, STARTTLS is sent only for StartTls, and the auth
\* command is sent only after every establishment step of the strategy has
\* succeeded; a successful run has sent EHLO once (None, DirectTls) or twice, once
\* per generation (StartTls), STARTTLS once (StartTls) or never, and auth once.
C12_EachCommandOnce ==
    (file = "connect.rs" /\ entry = "connect") =>
        /\ \A i, j \in DOMAIN trace :
            (trace[i].ev \in StageEvents /\ trace[i].ev = trace[j].ev
                /\ trace[i].gen = trace[j].gen) => i = j
        /\ Count("EHLO") <= (IF security = "StartTls" THEN 2 ELSE 1)
        /\ Count("STARTTLS") <= (IF security = "StartTls" THEN 1 ELSE 0)
        /\ Count("AUTH") <= 1
        /\ \A i \in Idx("AUTH") :
            /\ \A j \in StagesBefore(i) : trace[j].out = "ok"
            /\ Cardinality(StagesBefore(i)) = (IF security = "StartTls" THEN 6 ELSE 3)
        /\ result = "Ok" =>
            /\ Count("EHLO") = (IF security = "StartTls" THEN 2 ELSE 1)
            /\ Count("STARTTLS") = (IF security = "StartTls" THEN 1 ELSE 0)
            /\ Count("AUTH") = 1
            /\ Failures = {}

C12_Witness ==
    /\ file = "connect.rs" /\ entry = "connect" /\ security = "StartTls"
    /\ result = "Ok"
    /\ Count("EHLO") = 2 /\ Count("STARTTLS") = 1 /\ Count("AUTH") = 1

\* C13: connect_starttls of connection.rs reads the ledger of the first EHLO
\* before STARTTLS: without "STARTTLS" in it nothing more is sent (no STARTTLS,
\* no second EHLO), the result is the io error and no Connection is returned;
\* with "STARTTLS" in it the command is the next thing sent; and STARTTLS is
\* never sent unless it was advertised.
C13_StartTlsIsCheckedFirst ==
    (file = "connection.rs" /\ Strategy = "StartTls" /\ EhloOk(1) # {}) =>
        /\ Len(consults) = 1
        /\ consults[1].ledger.caps = Advertised(1)
        /\ "STARTTLS" \notin Advertised(1) =>
            /\ ~Has("STARTTLS")
            /\ Count("EHLO") = 1
            /\ Len(trace) = 3
            /\ result = "IoError"
            /\ pc = "done"
            /\ con = NoCon
        /\ "STARTTLS" \in Advertised(1) => (pc = "starttls" \/ Idx("STARTTLS") = {4})

C13_Witness ==
    /\ file = "connection.rs" /\ Strategy = "StartTls"
    /\ EhloOk(1) # {} /\ Advertised(1) # {} /\ "STARTTLS" \notin Advertised(1)
    /\ result = "IoError" /\ ~Has("STARTTLS")

\* C14: _connect_starttls of connect.rs never reads the ledger: once the first
\* EHLO has succeeded STARTTLS is the next thing sent, advertised or not; a
\* rejected STARTTLS is surfaced as Setup, never as Io or Auth, and neither a
\* second EHLO nor the auth command is sent after it.
C14_StartTlsIsAttemptedRegardless ==
    (file = "connect.rs" /\ Strategy = "StartTls") =>
        /\ consults = <<>>
        /\ EhloOk(1) # {} => (pc = "starttls" \/ Idx("STARTTLS") = {4})
        /\ \A i \in Idx("STARTTLS") : trace[i].out = "neg" =>
            /\ result \in {"pending", "Setup"}
            /\ pc = "done" => result = "Setup"
            /\ Count("EHLO") = 1
            /\ ~Has("tls_upgrade")
            /\ ~Has("AUTH")

C14_Witness ==
    /\ file = "connect.rs" /\ entry = "connect" /\ security = "StartTls"
    /\ EhloOk(1) # {} /\ "STARTTLS" \notin Advertised(1)
    /\ \E i \in Idx("STARTTLS") : trace[i].out = "neg"
    /\ result = "Setup"

\* whether step i of the trace hands a new transport generation to the next step
NewGeneration(i) == trace[i].ev \in {"open_plain", "open_tls", "tls_upgrade"}

\* C15: the operations on a Connection form one chain: a step that produced no
\* Connection (a transport failure) is the last one; every step runs on the
\* Connection the step before it produced; nothing follows a shutdown, and only
\* the shutdown follows QUIT; and a Connection exists exactly while the chain or
\* the caller holds one, never on a transport that was shut down or dropped.
C15_OneChainPerConnection ==
    /\ \A i \in DOMAIN trace : i < Len(trace) =>
        /\ trace[i].out # "io"
        /\ trace[i + 1].gen = trace[i].gen + (IF NewGeneration(i) THEN 1 ELSE 0)
    /\ \A i \in Idx("shutdown") : i = Len(trace)
    /\ \A i \in Idx("QUIT") : \A j \in DOMAIN trace :
        j > i => (j = i + 1 /\ trace[j].ev = "shutdown")
    /\ con = NoCon <=> pc \in {"open", "done", "panicked"}
    /\ con # NoCon => transport = "open"

C15_Witness ==
    /\ pc = "done" /\ con = NoCon
    /\ Has("CMD") /\ Has("QUIT") /\ Has("shutdown")
    /\ transport = "shutdown"

\* C16: on the StartTls path every EHLO, the one before the upgrade and the one
\* after it, carries the client identity of the configuration, in both files;
\* no other step carries an identity.
C16_SameIdentityBeforeAndAfterUpgrade ==
    /\ \A i \in DOMAIN trace :
        trace[i].clid = (IF trace[i].ev = "EHLO" THEN client_id ELSE "-")
    /\ Strategy = "StartTls" =>
        \A i \in Idx("EHLO") : \A j \in Idx("EHLO") : trace[i].clid = trace[j].clid

C16_Witness ==
    /\ Strategy = "StartTls" /\ client_id = "mail.example.org"
    /\ \E i \in Idx("EHLO") : \E j \in Idx("EHLO") :
        /\ trace[i].gen = 1 /\ trace[j].gen = 2
        /\ trace[i].clid = client_id /\ trace[j].clid = client_id

\* C17: in connect of connect.rs the auth command goes out on the upgraded
\* transport only: with StartTls it is sent on the TLS socket of the second
\* transport generation, after STARTTLS got a positive response, the handshake
\* completed and the post-upgrade EHLO got a positive response, and never while
\* the Connection is still on the plaintext socket; with DirectTls it is sent on
\* the TLS socket.
C17_AuthOnlyAfterUpgrade ==
    (file = "connect.rs" /\ entry = "connect") =>
        /\ \A i \in Idx("AUTH") :
            /\ security = "StartTls" =>
                /\ trace[i].socket = "tls" /\ trace[i].gen = 2
                /\ \E j \in Idx("STARTTLS") : j < i /\ trace[j].out = "ok"
                /\ \E j \in Idx("tls_upgrade") : j < i /\ trace[j].out = "ok"
                /\ \E j \in EhloOk(2) : j < i
            /\ security = "DirectTls" => trace[i].socket = "tls"
        /\ (security = "StartTls" /\ con.socket = "plain") => pc # "auth"

C17_Witness ==
    /\ file = "connect.rs" /\ entry = "connect" /\ security = "StartTls"
    /\ \E i \in Idx("AUTH") : trace[i].socket = "tls" /\ trace[i].gen = 2
    /\ result = "Ok"

\* the error the rejected step i is reported as
StageError(i) == IF trace[i].ev = "AUTH" THEN "Auth" ELSE "Setup"

\* C18: in connect.rs the error captured at a negative response is what the run
\* returns, whatever the cleanup QUIT resolves to (positive, negative, transport
\* failure) and whatever the shutdown after it does: never Io, never the other
\* logic error; and QUIT is sent at most once, directly after the rejection.
C18_CleanupNeverChangesTheError ==
    file = "connect.rs" =>
        /\ Count("QUIT") <= 1
        /\ \A i \in Failures : trace[i].out = "neg" =>
            /\ pending_err = StageError(i)
            /\ result \in {"pending", StageError(i)}
            /\ pc = "done" => result = StageError(i)
            /\ Idx("QUIT") \subseteq {i + 1}
            /\ pc \in {"shutdown", "done"} => Idx("QUIT") = {i + 1}
        /\ pending_err # "none" => (\E i \in Failures : trace[i].out = "neg")

C18_Witness ==
    /\ file = "connect.rs" /\ entry = "connect" /\ pc = "done"
    /\ result = "Auth" /\ AuthRejections # {}
    /\ \E i \in Idx("QUIT") : trace[i].out = "io"

\* a run of connect of connect.rs
ConnectRun == file = "connect.rs" /\ entry = "connect"

\* the steps a run of connect may take, each at most once per transport generation
C19_Bounded ==
    ConnectRun =>
        /\ Len(Stages) <= 7
        /\ \A i \in DOMAIN trace : \A j \in DOMAIN trace :
            (i # j /\ trace[i].ev = trace[j].ev
                   /\ trace[i].ev \in StageEvents \cup {"QUIT", "shutdown"}) =>
                (trace[i].ev = "EHLO" /\ trace[i].gen # trace[j].gen)
        /\ Count("EHLO") <= 2
        /\ result = "pending" => Len(trace) <= 8
        /\ pending_err # "none" => Len(trace) <= 9
        /\ result \in {"pending", "Ok", "Io", "Setup", "Auth"}
        /\ (result = "Ok" /\ nops = 0 /\ calls = 0 /\ ~Has("QUIT") /\ ~Has("shutdown"))
            => (pc = "ready" /\ con # NoCon)
        /\ result \in {"Io", "Setup", "Auth"} => (pc = "done" /\ con = NoCon)

\* C19: when every transport operation completes, every run of connect
\* (connect.rs), under every Security variant and every sequence of responses,
\* eventually resolves: to a Connection or to one ConnectingFailed error, which
\* never changes afterwards, after at most open, greeting, two EHLOs, STARTTLS
\* with its handshake, auth, QUIT and shutdown, no step taken twice.
C19_ConnectResolvesOnce ==
    /\ ConnectRun => <>(result # "pending")
    /\ []C19_Bounded
    /\ [][(ConnectRun /\ result # "pending") => result' = result]_vars

C19_Witness ==
    /\ ConnectRun /\ security = "StartTls"
    /\ pc = "done" /\ result = "Auth"
    /\ Len(trace) = 9
    /\ \E i \in Idx("QUIT") : trace[i].out = "neg"

====
